---- MODULE Spec2Model ----
(***************************************************************************)
(* tcpdrunk: a filter that reads `tcpdump -X` output line by line, parses  *)
(* each line with a nom streaming grammar (src/src/main.rs), announces the *)
(* host pair of every TCP header and merges the hex-dump rows that follow  *)
(* into one output line.                                                   *)
(*                                                                         *)
(* A byte is modelled as a one-character string, a byte slice (&[u8]) as a *)
(* sequence of such strings. stdinix (an external crate) is taken to call  *)
(* the closure once per line read with read_line, newline included, and to *)
(* return the closure's first error.                                       *)
(***************************************************************************)
EXTENDS Integers, Sequences, FiniteSets, TLC

----------------------------------------------------------------------------
(* Slices *)

\* &input[n..]
Drop(s, n) == SubSeq(s, n + 1, Len(s))

\* &input[..n]
Take(s, n) == SubSeq(s, 1, n)

----------------------------------------------------------------------------
(* nom::IResult: Ok((rest, out)), Err(Error((input, code))),               *)
(* Err(Incomplete(Needed)); "Panic" is an unwinding panic inside a parser. *)

Ok(rest, out) == [tag |-> "Ok", rest |-> rest, out |-> out, code |-> ""]

Error(input, code) == [tag |-> "Error", rest |-> input, code |-> code]

Incomplete == [tag |-> "Incomplete", rest |-> <<>>, code |-> ""]

Panic == [tag |-> "Panic", rest |-> <<>>, code |-> "unwrap"]

\* Iterator::position: the 1-based index of the first byte of `input` in
\* `stops`, 0 when there is none.
position(input, stops) ==
    LET found == {i \in 1..Len(input) : input[i] \in stops}
    IN  IF found = {} THEN 0
        ELSE CHOOSE i \in found : \A j \in found : i <= j

\* nom::bytes::streaming::take_while1 for a predicate "byte is not in stops":
\* no stop byte in the input (the empty input included) is Incomplete, a stop
\* byte at the very start is Error(TakeWhile1).
take_while1(input, stops) ==
    LET p == position(input, stops)
    IN  IF p = 0 THEN Incomplete
        ELSE IF p = 1 THEN Error(input, "TakeWhile1")
        ELSE Ok(Drop(input, p - 1), Take(input, p - 1))

\* nom::bytes::streaming::tag: a mismatch within the common length is
\* Error(Tag); an input that is a proper prefix of the tag is Incomplete.
tag(t, input) ==
    LET n == IF Len(input) < Len(t) THEN Len(input) ELSE Len(t)
    IN  IF \E i \in 1..n : input[i] # t[i] THEN Error(input, "Tag")
        ELSE IF Len(input) >= Len(t) THEN Ok(Drop(input, Len(t)), Take(input, Len(t)))
        ELSE Incomplete

\* nom::bytes::streaming::take
take(count, input) ==
    IF Len(input) < count THEN Incomplete
    ELSE Ok(Drop(input, count), Take(input, count))

\* u8::is_ascii_whitespace: space, tab, line feed, form feed, carriage return
Whitespace == {" ", "\t", "\n", "\f", "\r"}

not_whitespace(input) == take_while1(input, Whitespace)

not_linebreak(input) == take_while1(input, {"\n"})

not_colon(input) == take_while1(input, {":"})

parse_timestamp(input) == not_whitespace(input)

\* frame_info that stops at any whitespace
frame_info_to_whitespace(input) == not_whitespace(input)

frame_info(input) == not_linebreak(input)

\* enum TcpdumpLine
Ip(a, b) == [type |-> "Ip", a |-> a, b |-> b]

Tcp(source, dest, info) ==
    [type |-> "Tcp", source |-> source, dest |-> dest, info |-> info]

Data(hx, apprx) == [type |-> "Data", hex |-> hx, approx |-> apprx]

\* separated_pair(parse_timestamp, tag(" IP "), frame_info) mapped to Ip
parse_ip_line(input) ==
    LET r1 == parse_timestamp(input)
    IN  IF r1.tag # "Ok" THEN r1
        ELSE LET r2 == tag(<<" ", "I", "P", " ">>, r1.rest)
             IN  IF r2.tag # "Ok" THEN r2
                 ELSE LET r3 == frame_info(r2.rest)
                      IN  IF r3.tag # "Ok" THEN r3
                          ELSE Ok(r3.rest, Ip(r1.out, r3.out))

\* struct HostPort
HostPort(host, port) == [host |-> host, port |-> port]

\* position(|v| v == '.'): the first '.', 0 when there is none
position_dot(input) ==
    LET found == {i \in 1..Len(input) : input[i] = "."}
    IN  IF found = {} THEN 0
        ELSE CHOOSE i \in found : \A j \in found : i <= j

\* rposition(|v| v == '.'): the last '.', 0 when there is none
rposition_dot(input) ==
    LET found == {i \in 1..Len(input) : input[i] = "."}
    IN  IF found = {} THEN 0
        ELSE CHOOSE i \in found : \A j \in found : j <= i

\* parse_host_port: split at the last '.'; .unwrap() panics when the token
\* holds no '.', which is the value Panic here.
parse_host_port(input) ==
    LET last_dot == rposition_dot(input)
    IN  IF last_dot = 0 THEN Panic
        ELSE HostPort(Take(input, last_dot - 1), Drop(input, last_dot))

\* map(parser, parse_host_port) applied to the parser's result r
map_host_port(r) ==
    IF r.tag # "Ok" THEN r
    ELSE LET hp == parse_host_port(r.out)
         IN  IF hp = Panic THEN Panic ELSE Ok(r.rest, hp)

tcp_source(input) ==
    LET r1 == tag(<<" ", " ", " ", " ">>, input)
    IN  IF r1.tag # "Ok" THEN r1 ELSE map_host_port(not_whitespace(r1.rest))

tcp_dest(input) ==
    LET r1 == tag(<<" ", ">", " ">>, input)
    IN  IF r1.tag # "Ok" THEN r1 ELSE map_host_port(not_colon(r1.rest))

tcp_info(input) == not_linebreak(input)

parse_tcp_line(input) ==
    LET r1 == tcp_source(input)
    IN  IF r1.tag # "Ok" THEN r1
        ELSE LET r2 == tcp_dest(r1.rest)
             IN  IF r2.tag # "Ok" THEN r2
                 ELSE LET r3 == tcp_info(r2.rest)
                      IN  IF r3.tag # "Ok" THEN r3
                          ELSE Ok(r3.rest, Tcp(r1.out, r2.out, r3.out))

offset(input) == not_colon(input)

\* take(39usize)
HexWidth == 39

data(input) ==
    LET r1 == tag(<<":", " ", " ">>, input)
    IN  IF r1.tag # "Ok" THEN r1 ELSE take(HexWidth, r1.rest)

\* approximation that skips one space, not two
approximation_one_space(input) ==
    LET r1 == tag(<<" ">>, input)
    IN  IF r1.tag # "Ok" THEN r1 ELSE not_linebreak(r1.rest)

approximation(input) ==
    LET r1 == tag(<<" ", " ">>, input)
    IN  IF r1.tag # "Ok" THEN r1 ELSE not_linebreak(r1.rest)

parse_data_line(input) ==
    LET r1 == offset(input)
    IN  IF r1.tag # "Ok" THEN r1
        ELSE LET r2 == data(r1.rest)
             IN  IF r2.tag # "Ok" THEN r2
                 ELSE LET r3 == approximation(r2.rest)
                      IN  IF r3.tag # "Ok" THEN r3
                          ELSE Ok(r3.rest, Data(r2.out, r3.out))

\* alt((parse_ip_line, parse_tcp_line, parse_data_line)): the next alternative
\* is tried on Err::Error only; when all fail the last error is returned.
tcpdump_parser(input) ==
    LET r1 == parse_ip_line(input)
    IN  IF r1.tag # "Error" THEN r1
        ELSE LET r2 == parse_tcp_line(input)
             IN  IF r2.tag # "Error" THEN r2
                 ELSE parse_data_line(input)

----------------------------------------------------------------------------
(* The input: the lines stdinix hands to the closure, each with its        *)
(* terminating newline (read_line keeps it).                                *)

\* an IP header line
\* 00:55:30.853902 IP (tos 0x0, ttl 63, id 1, offset 0, flags [DF], proto TCP (6), length 60)\n
IpLine ==
    <<"0", "0", ":", "5", "5", ":", "3", "0", ".", "8", "5", "3", "9", "0",
      "2", " ", "I", "P", " ", "(", "t", "o", "s", " ", "0", "x", "0", ",",
      " ", "t", "t", "l", " ", "6", "3", ",", " ", "i", "d", " ", "1", ",",
      " ", "o", "f", "f", "s", "e", "t", " ", "0", ",", " ", "f", "l", "a",
      "g", "s", " ", "[", "D", "F", "]", ",", " ", "p", "r", "o", "t", "o",
      " ", "T", "C", "P", " ", "(", "6", ")", ",", " ", "l", "e", "n", "g",
      "t", "h", " ", "6", "0", ")", "\n">>

\* the TCP header line of the documented scenario
\*     192.168.0.10.8008 > 192.168.0.20.50314: Flags [.], ...\n
TcpLineAB ==
    <<" ", " ", " ", " ", "1", "9", "2", ".", "1", "6", "8", ".", "0", ".",
      "1", "0", ".", "8", "0", "0", "8", " ", ">", " ", "1", "9", "2", ".",
      "1", "6", "8", ".", "0", ".", "2", "0", ".", "5", "0", "3", "1", "4",
      ":", " ", "F", "l", "a", "g", "s", " ", "[", ".", "]", ",", " ", ".",
      ".", ".", "\n">>

\*     10.0.0.3.80 > 10.0.0.4.81: Flags [P.]\n
TcpLineCD ==
    <<" ", " ", " ", " ", "1", "0", ".", "0", ".", "0", ".", "3", ".", "8",
      "0", " ", ">", " ", "1", "0", ".", "0", ".", "0", ".", "4", ".", "8",
      "1", ":", " ", "F", "l", "a", "g", "s", " ", "[", "P", ".", "]", "\n">>

\*     10.0.0.5.80 > 10.0.0.6.81: Flags [S]\n
TcpLineEF ==
    <<" ", " ", " ", " ", "1", "0", ".", "0", ".", "0", ".", "5", ".", "8",
      "0", " ", ">", " ", "1", "0", ".", "0", ".", "0", ".", "6", ".", "8",
      "1", ":", " ", "F", "l", "a", "g", "s", " ", "[", "S", "]", "\n">>

\* a TCP header line whose source and dest host are the same
\*     10.0.0.7.80 > 10.0.0.7.81: Flags [.]\n
TcpLineGG ==
    <<" ", " ", " ", " ", "1", "0", ".", "0", ".", "0", ".", "7", ".", "8",
      "0", " ", ">", " ", "1", "0", ".", "0", ".", "0", ".", "7", ".", "8",
      "1", ":", " ", "F", "l", "a", "g", "s", " ", "[", ".", "]", "\n">>

\* the hex-dump row of the documented scenario
\*         0x0000:  4500 0233 b512 4000 4006 0244 c0a8 000a  .......\n
DataLine1 ==
    <<" ", " ", " ", " ", " ", " ", " ", " ", "0", "x", "0", "0", "0", "0",
      ":", " ", " ", "4", "5", "0", "0", " ", "0", "2", "3", "3", " ", "b",
      "5", "1", "2", " ", "4", "0", "0", "0", " ", "4", "0", "0", "6", " ",
      "0", "2", "4", "4", " ", "c", "0", "a", "8", " ", "0", "0", "0", "a",
      " ", " ", ".", ".", ".", ".", ".", ".", ".", "\n">>

\* a tab-indented hex-dump row
\* \t0x0010:  c0a8 0014 c48a 1f48 ff0b 5ee6 b905 c31c  E..5 @.\n
DataLine2 ==
    <<"\t", "0", "x", "0", "0", "1", "0", ":", " ", " ", "c", "0", "a",
      "8", " ", "0", "0", "1", "4", " ", "c", "4", "8", "a", " ", "1", "f",
      "4", "8", " ", "f", "f", "0", "b", " ", "5", "e", "e", "6", " ", "b",
      "9", "0", "5", " ", "c", "3", "1", "c", " ", " ", "E", ".", ".", "5",
      " ", "@", ".", "\n">>

\* a row with a single space after the colon: Err::Error of every alternative
\* 0x0020: 4500\n
BadDataLine ==
    <<"0", "x", "0", "0", "2", "0", ":", " ", "4", "5", "0", "0", "\n">>

\* a line with no colon: the last alternative reports Incomplete
\* hello world\n
NoColonLine ==
    <<"h", "e", "l", "l", "o", " ", "w", "o", "r", "l", "d", "\n">>

\* a 4-space-indented token with no '.': parse_host_port panics
\*     localhost > peer: Flags [.]\n
NoDotLine ==
    <<" ", " ", " ", " ", "l", "o", "c", "a", "l", "h", "o", "s", "t", " ",
      ">", " ", "p", "e", "e", "r", ":", " ", "F", "l", "a", "g", "s", " ",
      "[", ".", "]", "\n">>

\* a last line that end-of-file cuts before its newline
\* 00:55:31.000001 IP (tos 0x0)
UnterminatedLine ==
    <<"0", "0", ":", "5", "5", ":", "3", "1", ".", "0", "0", "0", "0", "0",
      "1", " ", "I", "P", " ", "(", "t", "o", "s", " ", "0", "x", "0", ")">>

\* The lines Spec feeds, in any order and with repetition.
Lines ==
    {IpLine, TcpLineAB, TcpLineCD, DataLine1, DataLine2,
     BadDataLine, NoColonLine, NoDotLine, UnterminatedLine}

\* The lines HostsSpec feeds: four TCP headers naming seven hosts.
HostLines == {IpLine, DataLine1, TcpLineAB, TcpLineCD, TcpLineEF, TcpLineGG}

\* The bytes ParseSpec builds its inputs from, and their greatest length.
ParseAlphabet == {"I", "P", " ", "\n"}

MaxInput == 8

ParseInputs == UNION {[1..n -> ParseAlphabet] : n \in 0..MaxInput}

\* At most this many lines are read in one run.
MaxLines == 5

\* Opt.repr: the default, "hex", and a value write_repr does not recognise
Reprs == {"approximation", "hex", "raw"}

----------------------------------------------------------------------------
(* State of one run of main *)

VARIABLES
    pc,             \* "reading" | "drained" | "done" | "failed" | "panicked"
    options,        \* Opt
    hex,            \* main's `hex` String
    approximationBuf, \* main's `approximation` String
    colors,         \* main's HashMap<String, ColoredString>
    stdout,         \* the lines printed on standard output, in order
    stderr,         \* the diagnostics printed on standard error, in order
    stdin,          \* history: the lines read so far
    records,        \* history: the records write_out has been given
    parseResult,    \* the IResult of the last call of tcpdump_parser
    calls           \* the calls of write_out made for the last line read

vars ==
    <<pc, options, hex, approximationBuf, colors, stdout, stderr, stdin, records,
      parseResult, calls>>

\* char::from(u8): the code point with the byte's value
char_from(byte) == byte

\* .into_iter().cloned().map(char::from) collected or extended into a String
chars(bytes) == [i \in 1..Len(bytes) |-> char_from(bytes[i])]

\* the colours of colored_string's match, by len % 6
Palette == <<"Red", "Green", "Yellow", "Blue", "Magenta", "Cyan">>

ColoredString(text, fgcolor) == [text |-> text, fgcolor |-> fgcolor]

\* colored_string with insert() in place of entry().or_insert_with(): a host
\* seen again is given the colour of the map's current size
colored_string_insert(text, map) ==
    LET len == Cardinality(DOMAIN map)
        key == chars(text)
        inserted ==
            [k \in (DOMAIN map) \cup {key} |->
                IF k = key THEN ColoredString(key, Palette[(len % 6) + 1])
                ELSE map[k]]
    IN  [map |-> inserted, value |-> inserted[key]]

\* colored_string: the entry of `key`, inserted with the colour of the
\* map's size when absent. Returns the map and the entry's value.
colored_string(text, map) ==
    LET len == Cardinality(DOMAIN map)
        key == chars(text)
        inserted ==
            IF key \in DOMAIN map THEN map
            ELSE [k \in (DOMAIN map) \cup {key} |->
                     IF k = key THEN ColoredString(key, Palette[(len % 6) + 1])
                     ELSE map[k]]
    IN  [map |-> inserted, value |-> inserted[key]]

\* println!("{}", s)
TextLine(s) == [kind |-> "text", text |-> s]

\* the second line of println!("\n{} -> {}", source, dest)
BannerLine(source, dest) == [kind |-> "banner", source |-> source, dest |-> dest]

\* eprintln!("Data ignored")
DataIgnored == [what |-> "Data ignored", rest |-> <<>>, code |-> ""]

\* write_repr with the two recognised arms exchanged
write_repr_swapped(approx, hx, config, io) ==
    CASE config.repr = "approximation" ->
             [io EXCEPT !.stdout = Append(@, TextLine(hx))]
      [] config.repr = "hex" ->
             [io EXCEPT !.stdout = Append(@, TextLine(approx))]
      [] OTHER ->
             [io EXCEPT !.stderr = Append(@, DataIgnored)]

\* write_repr whose fallback arm prints the approximation
write_repr_fallback_prints(approx, hx, config, io) ==
    CASE config.repr = "hex" ->
             [io EXCEPT !.stdout = Append(@, TextLine(hx))]
      [] OTHER ->
             [io EXCEPT !.stdout = Append(@, TextLine(approx))]

\* write_repr(approximation, hex, config) on the channels io = [stdout, stderr]
write_repr(approx, hx, config, io) ==
    CASE config.repr = "approximation" ->
             [io EXCEPT !.stdout = Append(@, TextLine(approx))]
      [] config.repr = "hex" ->
             [io EXCEPT !.stdout = Append(@, TextLine(hx))]
      [] OTHER ->
             [io EXCEPT !.stderr = Append(@, DataIgnored)]

\* write_out on st = [hex, approximation, colors, stdout, stderr, calls];
\* calls counts the invocations, the recursive one included
RECURSIVE write_out(_, _, _)

\* write_out that announces a host pair only when one of its hosts is new
write_out_announce_new(st, parsed, config) ==
    CASE parsed.type = "Data" ->
             [st EXCEPT !.hex = @ \o <<" ">> \o chars(parsed.hex),
                        !.approximation = @ \o chars(parsed.approx)]
      [] parsed.type # "Data" /\ Len(st.hex) > 0 ->
             LET io == write_repr(st.approximation, st.hex, config,
                                  [stdout |-> st.stdout, stderr |-> st.stderr])
             IN  write_out([st EXCEPT !.stdout = io.stdout,
                                      !.stderr = io.stderr,
                                      !.approximation = <<>>,
                                      !.hex = <<>>],
                           parsed, config)
      [] parsed.type = "Tcp" /\ Len(st.hex) = 0 ->
             LET source == colored_string(parsed.source.host, st.colors)
                 dest == colored_string(parsed.dest.host, source.map)
             IN  IF dest.map = st.colors THEN st
                 ELSE [st EXCEPT !.colors = dest.map,
                                 !.stdout = @ \o <<TextLine(<<>>),
                                                   BannerLine(source.value, dest.value)>>]
      [] OTHER -> st

\* write_out with the flush arm matched before the Data arm
write_out_flush_first(st, parsed, config) ==
    CASE Len(st.hex) > 0 ->
             LET io == write_repr(st.approximation, st.hex, config,
                                  [stdout |-> st.stdout, stderr |-> st.stderr])
             IN  write_out([st EXCEPT !.stdout = io.stdout,
                                      !.stderr = io.stderr,
                                      !.approximation = <<>>,
                                      !.hex = <<>>],
                           parsed, config)
      [] Len(st.hex) = 0 /\ parsed.type = "Data" ->
             [st EXCEPT !.hex = @ \o <<" ">> \o chars(parsed.hex),
                        !.approximation = @ \o chars(parsed.approx)]
      [] Len(st.hex) = 0 /\ parsed.type = "Tcp" ->
             LET source == colored_string(parsed.source.host, st.colors)
                 dest == colored_string(parsed.dest.host, source.map)
             IN  [st EXCEPT !.colors = dest.map,
                            !.stdout = @ \o <<TextLine(<<>>),
                                              BannerLine(source.value, dest.value)>>]
      [] OTHER -> st

\* write_out that takes a Data record only into a packet already begun
write_out_data_needs_packet(st, parsed, config) ==
    CASE parsed.type = "Data" /\ Len(st.hex) > 0 ->
             [st EXCEPT !.hex = @ \o <<" ">> \o chars(parsed.hex),
                        !.approximation = @ \o chars(parsed.approx)]
      [] parsed.type # "Data" /\ Len(st.hex) > 0 ->
             LET io == write_repr(st.approximation, st.hex, config,
                                  [stdout |-> st.stdout, stderr |-> st.stderr])
             IN  write_out([st EXCEPT !.stdout = io.stdout,
                                      !.stderr = io.stderr,
                                      !.approximation = <<>>,
                                      !.hex = <<>>],
                           parsed, config)
      [] parsed.type = "Tcp" /\ Len(st.hex) = 0 ->
             LET source == colored_string(parsed.source.host, st.colors)
                 dest == colored_string(parsed.dest.host, source.map)
             IN  [st EXCEPT !.colors = dest.map,
                            !.stdout = @ \o <<TextLine(<<>>),
                                              BannerLine(source.value, dest.value)>>]
      [] OTHER -> st

\* write_out whose flush arm clears hex and leaves approximation
write_out_keeps_approximation(st, parsed, config) ==
    CASE parsed.type = "Data" ->
             [st EXCEPT !.hex = @ \o <<" ">> \o chars(parsed.hex),
                        !.approximation = @ \o chars(parsed.approx)]
      [] parsed.type # "Data" /\ Len(st.hex) > 0 ->
             LET io == write_repr(st.approximation, st.hex, config,
                                  [stdout |-> st.stdout, stderr |-> st.stderr])
             IN  write_out([st EXCEPT !.stdout = io.stdout,
                                      !.stderr = io.stderr,
                                      !.hex = <<>>],
                           parsed, config)
      [] parsed.type = "Tcp" /\ Len(st.hex) = 0 ->
             LET source == colored_string(parsed.source.host, st.colors)
                 dest == colored_string(parsed.dest.host, source.map)
             IN  [st EXCEPT !.colors = dest.map,
                            !.stdout = @ \o <<TextLine(<<>>),
                                              BannerLine(source.value, dest.value)>>]
      [] OTHER -> st

\* write_out whose flush arm dispatches the record again after the recursive
\* call has returned
write_out_redispatch_twice(st, parsed, config) ==
    CASE parsed.type = "Data" ->
             [st EXCEPT !.hex = @ \o <<" ">> \o chars(parsed.hex),
                        !.approximation = @ \o chars(parsed.approx),
                        !.calls = @ + 1]
      [] parsed.type # "Data" /\ Len(st.hex) > 0 ->
             LET io == write_repr(st.approximation, st.hex, config,
                                  [stdout |-> st.stdout, stderr |-> st.stderr])
             IN  write_out(write_out([st EXCEPT !.stdout = io.stdout,
                                                !.stderr = io.stderr,
                                                !.approximation = <<>>,
                                                !.hex = <<>>,
                                                !.calls = @ + 1],
                                     parsed, config),
                           parsed, config)
      [] parsed.type = "Tcp" /\ Len(st.hex) = 0 ->
             LET source == colored_string(parsed.source.host, st.colors)
                 dest == colored_string(parsed.dest.host, source.map)
             IN  [st EXCEPT !.colors = dest.map,
                            !.stdout = @ \o <<TextLine(<<>>),
                                              BannerLine(source.value, dest.value)>>,
                            !.calls = @ + 1]
      [] OTHER -> [st EXCEPT !.calls = @ + 1]

\* write_out that prints a TCP header's banner first and flushes afterwards
write_out_banner_first(st, parsed, config) ==
    CASE parsed.type = "Data" ->
             [st EXCEPT !.hex = @ \o <<" ">> \o chars(parsed.hex),
                        !.approximation = @ \o chars(parsed.approx),
                        !.calls = @ + 1]
      [] parsed.type = "Tcp" ->
             LET source == colored_string(parsed.source.host, st.colors)
                 dest == colored_string(parsed.dest.host, source.map)
                 out == st.stdout \o <<TextLine(<<>>),
                                       BannerLine(source.value, dest.value)>>
                 io == IF Len(st.hex) > 0
                       THEN write_repr(st.approximation, st.hex, config,
                                       [stdout |-> out, stderr |-> st.stderr])
                       ELSE [stdout |-> out, stderr |-> st.stderr]
             IN  [st EXCEPT !.colors = dest.map,
                            !.stdout = io.stdout,
                            !.stderr = io.stderr,
                            !.approximation = <<>>,
                            !.hex = <<>>,
                            !.calls = @ + (IF Len(st.hex) > 0 THEN 2 ELSE 1)]
      [] parsed.type = "Ip" /\ Len(st.hex) > 0 ->
             LET io == write_repr(st.approximation, st.hex, config,
                                  [stdout |-> st.stdout, stderr |-> st.stderr])
             IN  write_out([st EXCEPT !.stdout = io.stdout,
                                      !.stderr = io.stderr,
                                      !.approximation = <<>>,
                                      !.hex = <<>>,
                                      !.calls = @ + 1],
                           parsed, config)
      [] OTHER -> [st EXCEPT !.calls = @ + 1]

\* write_out whose last arm separates IP headers by a blank line
write_out_ip_blank_line(st, parsed, config) ==
    CASE parsed.type = "Data" ->
             [st EXCEPT !.hex = @ \o <<" ">> \o chars(parsed.hex),
                        !.approximation = @ \o chars(parsed.approx),
                        !.calls = @ + 1]
      [] parsed.type # "Data" /\ Len(st.hex) > 0 ->
             LET io == write_repr(st.approximation, st.hex, config,
                                  [stdout |-> st.stdout, stderr |-> st.stderr])
             IN  write_out([st EXCEPT !.stdout = io.stdout,
                                      !.stderr = io.stderr,
                                      !.approximation = <<>>,
                                      !.hex = <<>>,
                                      !.calls = @ + 1],
                           parsed, config)
      [] parsed.type = "Tcp" /\ Len(st.hex) = 0 ->
             LET source == colored_string(parsed.source.host, st.colors)
                 dest == colored_string(parsed.dest.host, source.map)
             IN  [st EXCEPT !.colors = dest.map,
                            !.stdout = @ \o <<TextLine(<<>>),
                                              BannerLine(source.value, dest.value)>>,
                            !.calls = @ + 1]
      [] OTHER -> [st EXCEPT !.stdout = Append(@, TextLine(<<>>)),
                             !.calls = @ + 1]

write_out(st, parsed, config) ==
    CASE parsed.type = "Data" ->
             [st EXCEPT !.hex = @ \o <<" ">> \o chars(parsed.hex),
                        !.approximation = @ \o chars(parsed.approx),
                        !.calls = @ + 1]
      [] parsed.type # "Data" /\ Len(st.hex) > 0 ->
             LET io == write_repr(st.approximation, st.hex, config,
                                  [stdout |-> st.stdout, stderr |-> st.stderr])
             IN  write_out([st EXCEPT !.stdout = io.stdout,
                                      !.stderr = io.stderr,
                                      !.approximation = <<>>,
                                      !.hex = <<>>,
                                      !.calls = @ + 1],
                           parsed, config)
      [] parsed.type = "Tcp" /\ Len(st.hex) = 0 ->
             LET source == colored_string(parsed.source.host, st.colors)
                 dest == colored_string(parsed.dest.host, source.map)
             IN  [st EXCEPT !.colors = dest.map,
                            !.stdout = @ \o <<TextLine(<<>>),
                                              BannerLine(source.value, dest.value)>>,
                            !.calls = @ + 1]
      [] OTHER -> [st EXCEPT !.calls = @ + 1]

\* eprintln!("{:?}", e) for the nom error e
NomError(e) == [what |-> e.tag, rest |-> e.rest, code |-> e.code]

\* the io::Error of .oops("Failed to parse"), which main returns and the
\* runtime reports
FailedToParse == [what |-> "Failed to parse", rest |-> <<>>, code |-> ""]

\* the panic message of Option::unwrap() on None, which names no input
PanicMessage == [what |-> "panicked", rest |-> <<>>, code |-> "unwrap"]

\* no call of tcpdump_parser yet
NoResult == [tag |-> "None", rest |-> <<>>, code |-> ""]

Init ==
    /\ pc = "reading"
    /\ parseResult = NoResult
    /\ options \in [repr : Reprs]
    /\ hex = <<>>
    /\ approximationBuf = <<>>
    /\ colors = [k \in {} |-> ColoredString(<<>>, "Red")]
    /\ stdout = <<>>
    /\ stderr = <<>>
    /\ stdin = <<>>
    /\ records = <<>>
    /\ calls = 0

\* One call of the closure main gives to stdinix, on the next line of input.
HandleLine(line) ==
    /\ pc = "reading"
    /\ Len(stdin) < MaxLines
    /\ stdin' = Append(stdin, line)
    /\ parseResult' = tcpdump_parser(line)
    /\ LET r == parseResult'
       IN  CASE r.tag = "Ok" ->
                    LET st == write_out([hex |-> hex,
                                         approximation |-> approximationBuf,
                                         colors |-> colors,
                                         stdout |-> stdout,
                                         stderr |-> stderr,
                                         calls |-> 0],
                                        r.out, options)
                    IN  /\ records' = Append(records, r.out)
                        /\ hex' = st.hex
                        /\ approximationBuf' = st.approximation
                        /\ colors' = st.colors
                        /\ stdout' = st.stdout
                        /\ stderr' = st.stderr
                        /\ calls' = st.calls
                        /\ pc' = IF line[Len(line)] = "\n" THEN "reading" ELSE "drained"
             [] r.tag = "Panic" ->
                    /\ pc' = "panicked"
                    /\ stderr' = Append(stderr, PanicMessage)
                    /\ calls' = 0
                    /\ UNCHANGED <<hex, approximationBuf, colors, stdout, records>>
             [] OTHER ->
                    /\ pc' = "failed"
                    /\ stderr' = stderr \o <<NomError(r), FailedToParse>>
                    /\ calls' = 0
                    /\ UNCHANGED <<hex, approximationBuf, colors, stdout, records>>
    /\ UNCHANGED options

\* EndOfInput without the test of hex.is_empty()
EndOfInput_unconditional ==
    /\ pc \in {"reading", "drained"}
    /\ pc' = "done"
    /\ LET io == write_repr(approximationBuf, hex, options,
                            [stdout |-> stdout, stderr |-> stderr])
       IN  stdout' = io.stdout /\ stderr' = io.stderr
    /\ UNCHANGED <<options, hex, approximationBuf, colors, stdin, records,
                   parseResult, calls>>

\* EndOfInput reached on the error path too: the closing flush runs after a
\* line that failed to parse
EndOfInput_after_failure ==
    /\ pc \in {"reading", "drained", "failed"}
    /\ pc' = "done"
    /\ IF Len(hex) # 0
       THEN LET io == write_repr(approximationBuf, hex, options,
                                 [stdout |-> stdout, stderr |-> stderr])
            IN  stdout' = io.stdout /\ stderr' = io.stderr
       ELSE UNCHANGED <<stdout, stderr>>
    /\ UNCHANGED <<options, hex, approximationBuf, colors, stdin, records,
                   parseResult, calls>>

\* stdinix returns Ok at end of input; main prints what is still buffered.
EndOfInput ==
    /\ pc \in {"reading", "drained"}
    /\ pc' = "done"
    /\ IF Len(hex) # 0
       THEN LET io == write_repr(approximationBuf, hex, options,
                                 [stdout |-> stdout, stderr |-> stderr])
            IN  stdout' = io.stdout /\ stderr' = io.stderr
       ELSE UNCHANGED <<stdout, stderr>>
    /\ UNCHANGED <<options, hex, approximationBuf, colors, stdin, records,
                   parseResult, calls>>

Next ==
    \/ \E line \in Lines : HandleLine(line)
    \/ EndOfInput

Spec == Init /\ [][Next]_vars

\* The same program in its default mode, fed TCP headers of many hosts.
HostsInit == Init /\ options.repr = "approximation"

HostsNext ==
    \/ \E line \in HostLines : HandleLine(line)
    \/ EndOfInput

HostsSpec == HostsInit /\ [][HostsNext]_vars

\* The grammar alone, applied once to an input as the unit tests apply it.
ParseLine(line) ==
    /\ parseResult = NoResult
    /\ stdin' = <<line>>
    /\ parseResult' = tcpdump_parser(line)
    /\ UNCHANGED <<pc, options, hex, approximationBuf, colors, stdout, stderr,
                   records, calls>>

ParseNext ==
    /\ parseResult = NoResult
    /\ \E line \in ParseInputs : ParseLine(line)

ParseSpec == HostsInit /\ [][ParseNext]_vars

\* The program on an input of at most one line. The lines are TCP headers
\* built from every pair of address tokens over TokenAlphabet.
TokenAlphabet == {".", "1"}

MaxToken == 4

Tokens == UNION {[1..n -> TokenAlphabet] : n \in 1..MaxToken}

\* "    <source> > <dest>: F\n"
TcpLineOf(source, dest) ==
    <<" ", " ", " ", " ">> \o source \o <<" ", ">", " ">> \o dest
        \o <<":", " ", "F", "\n">>

TokenLines == {TcpLineOf(s, d) : s, d \in Tokens}

\* Lines of the data shape, "<indent><offset>:  <39 bytes>  <approximation>\n",
\* under every indentation of up to MaxIndent spaces or one tab. No part
\* holds " IP " or " > ", so none has the shape of a header line.
MaxIndent == 5

Indents == {<<"\t">>} \cup UNION {[1..n -> {" "}] : n \in 0..MaxIndent}

OffsetTokens == {<<"0", "x", "0", "0", "0", "0">>, <<"0", "x", "0", ".", "1">>, <<"7">>}

HexColumns == {SubSeq(DataLine1, 18, 56), SubSeq(DataLine2, 11, 49)}

Approximations == {<<".", ".", ".">>, <<"E", ".", " ", "@">>}

DataLineOf(indent, off, hx, ap) ==
    indent \o off \o <<":", " ", " ">> \o hx \o <<" ", " ">> \o ap \o <<"\n">>

ShapeLines ==
    {DataLineOf(indent, off, hx, ap) :
        indent \in Indents, off \in OffsetTokens, hx \in HexColumns,
        ap \in Approximations}

\* A last line the input ends in the middle of: every non-empty proper
\* prefix of a line that one of the three grammars accepts.
ValidLines == {IpLine, TcpLineAB, TcpLineCD, DataLine1, DataLine2} \cup ShapeLines

Prefixes == UNION {{Take(line, n) : n \in 1..(Len(line) - 1)} : line \in ValidLines}

LineInputs == TokenLines \cup ShapeLines \cup Prefixes

LineNext ==
    \/ /\ stdin = <<>>
       /\ \E line \in LineInputs : HandleLine(line)
    \/ EndOfInput

LineSpec == HostsInit /\ [][LineNext]_vars

----------------------------------------------------------------------------
(* What the properties below read off a state *)

Kinds == [i \in 1..Len(records) |-> records[i].type]

\* The positions at which a maximal run of consecutive Data records ends.
RunEnds ==
    {i \in 1..Len(records) :
        /\ Kinds[i] = "Data"
        /\ i = Len(records) \/ Kinds[i + 1] # "Data"}

\* The runs whose end the program has seen: a header record followed, or the
\* input ended.
ClosedRunEnds == {i \in RunEnds : i < Len(records) \/ pc = "done"}

\* The k-th closed run, as the sequence of its Data records.
ClosedRun(k) ==
    LET e == CHOOSE i \in ClosedRunEnds :
                 Cardinality({j \in ClosedRunEnds : j <= i}) = k
        b == CHOOSE j \in 1..e :
                 /\ \A m \in j..e : Kinds[m] = "Data"
                 /\ j = 1 \/ Kinds[j - 1] # "Data"
    IN  SubSeq(records, b, e)

\* The packet lines on standard output (a banner's blank line is empty, a
\* packet line never is), and the "Data ignored" diagnostics.
PacketLines == SelectSeq(stdout, LAMBDA l : l.kind = "text" /\ l.text # <<>>)

Ignored == SelectSeq(stderr, LAMBDA d : d.what = "Data ignored")

Banners == SelectSeq(stdout, LAMBDA l : l.kind = "banner")

\* A flush shows as a packet line or as a "Data ignored" diagnostic.
Flushes == Len(PacketLines) + Len(Ignored)

\* h1 + " " + h2 + " " + ... + hn
RECURSIVE JoinHex(_)
JoinHex(run) ==
    IF Len(run) = 0 THEN <<>>
    ELSE IF Len(run) = 1 THEN run[1].hex
    ELSE run[1].hex \o <<" ">> \o JoinHex(Tail(run))

\* a1 + a2 + ... + an
RECURSIVE ConcatApprox(_)
ConcatApprox(run) ==
    IF Len(run) = 0 THEN <<>> ELSE run[1].approx \o ConcatApprox(Tail(run))

\* The step that handles a line parsed as a record of the given kinds.
RecordStep(kinds) ==
    /\ stdin' # stdin
    /\ parseResult'.tag = "Ok"
    /\ parseResult'.out.type \in kinds

----------------------------------------------------------------------------
(* C1: a flush happens exactly once per maximal run of Data records, at the *)
(* first header record after the run or at end of input, and at no other   *)
(* time: in every state the number of flushes is the number of runs whose  *)
(* end has been seen; a Data record emits nothing and leaves the buffers   *)
(* longer, a header record flushes and clears them exactly when they hold  *)
(* data.                                                                   *)
C1_FlushOncePerRun ==
    /\ [](Flushes = Cardinality(ClosedRunEnds))
    /\ [][/\ RecordStep({"Data"}) =>
                /\ stdout' = stdout /\ stderr' = stderr
                /\ Len(hex') > Len(hex)
                /\ Len(approximationBuf') > Len(approximationBuf)
          /\ RecordStep({"Ip", "Tcp"}) =>
                /\ hex' = <<>> /\ approximationBuf' = <<>>
                /\ Flushes' = Flushes + (IF hex # <<>> THEN 1 ELSE 0)]_vars

\* C1's case: TcpHeader, three DataFragments, TcpHeader has flushed once.
C1_Witness ==
    /\ Kinds = <<"Tcp", "Data", "Data", "Data", "Tcp">>
    /\ Flushes = 1
    /\ hex = <<>>

(* C2: in "hex" mode every flushed line is the hex columns of its run      *)
(* joined by single spaces, h1 + " " + ... + hn.                           *)
C2_HexJoined ==
    options.repr = "hex" =>
        /\ Len(PacketLines) = Cardinality(ClosedRunEnds)
        /\ \A k \in 1..Len(PacketLines) :
               PacketLines[k].text = JoinHex(ClosedRun(k))

(* C3: in "approximation" mode every flushed line is the concatenation, in *)
(* arrival order and with no separator, of the approximation columns of    *)
(* its run, and is not the hex buffer; in "hex" mode the flushed line is   *)
(* the hex buffer (every hex column preceded by a space) and is not the    *)
(* approximation buffer.                                                   *)
C3_ApproximationConcatenated ==
    /\ options.repr \in {"approximation", "hex"} =>
           Len(PacketLines) = Cardinality(ClosedRunEnds)
    /\ options.repr = "approximation" =>
           \A k \in 1..Len(PacketLines) :
               /\ PacketLines[k].text = ConcatApprox(ClosedRun(k))
               /\ PacketLines[k].text # <<" ">> \o JoinHex(ClosedRun(k))
    /\ options.repr = "hex" =>
           \A k \in 1..Len(PacketLines) :
               /\ PacketLines[k].text = <<" ">> \o JoinHex(ClosedRun(k))
               /\ PacketLines[k].text # ConcatApprox(ClosedRun(k))

\* C3's case: a run of two different fragments has been printed in the
\* default mode.
C3_Witness ==
    /\ options.repr = "approximation"
    /\ Len(PacketLines) >= 1
    /\ Len(ClosedRun(1)) = 2
    /\ ClosedRun(1)[1].approx # ClosedRun(1)[2].approx

(* C4: when the input ends with data in the accumulator exactly one flush  *)
(* occurs and nothing follows it; when it ends with an empty accumulator   *)
(* nothing is emitted at end of input.                                     *)
C4_EndOfStreamFlush ==
    /\ [](pc = "done" => ~ENABLED Next)
    /\ [][(pc # "done" /\ pc' = "done") =>
             IF hex # <<>>
             THEN /\ Flushes' = Flushes + 1
                  /\ Len(stdout') + Len(stderr') = Len(stdout) + Len(stderr) + 1
                  /\ Banners' = Banners
             ELSE stdout' = stdout /\ stderr' = stderr]_vars

\* C4's case: the input ended with a pending packet, which was printed last.
C4_Witness ==
    /\ pc = "done"
    /\ Len(records) >= 2
    /\ Kinds[Len(records)] = "Data"
    /\ Len(stdout) >= 3
    /\ stdout[Len(stdout)].kind = "text"
    /\ stdout[Len(stdout)].text = ConcatApprox(ClosedRun(Cardinality(ClosedRunEnds)))

TcpRecords == SelectSeq(records, LAMBDA r : r.type = "Tcp")

SamePair(b1, b2) == b1.source.text = b2.source.text /\ b1.dest.text = b2.dest.text

(* C5 as stated: the banner of a host pair is emitted once, when the pair  *)
(* is first observed, and not again for later TcpHeader records of the     *)
(* same pair.                                                              *)
C5_BannerOncePerPair ==
    \A i, j \in 1..Len(Banners) : SamePair(Banners[i], Banners[j]) => i = j

(* C5, amended: every TcpHeader record handled emits one banner, so the    *)
(* banners are, in order, the host pairs of the TcpHeader records read, a  *)
(* pair seen again included.                                               *)
C5_BannerPerTcpHeader ==
    /\ Len(Banners) = Len(TcpRecords)
    /\ \A k \in 1..Len(Banners) :
           /\ Banners[k].source.text = chars(TcpRecords[k].source.host)
           /\ Banners[k].dest.text = chars(TcpRecords[k].dest.host)

\* C5's case: the same host pair has been announced twice.
C5_Witness ==
    /\ Len(Banners) = 2
    /\ SamePair(Banners[1], Banners[2])
    /\ Len(TcpRecords) = 2

Range(seq) == {seq[i] : i \in 1..Len(seq)}

\* The distinct host strings of the TcpHeader records, in first-seen order,
\* the source of a record before its dest.
RECURSIVE FirstSeen(_)
FirstSeen(tcps) ==
    IF Len(tcps) = 0 THEN <<>>
    ELSE LET before == FirstSeen(SubSeq(tcps, 1, Len(tcps) - 1))
             t == tcps[Len(tcps)]
             withSource ==
                 IF chars(t.source.host) \in Range(before) THEN before
                 ELSE Append(before, chars(t.source.host))
         IN  IF chars(t.dest.host) \in Range(withSource) THEN withSource
             ELSE Append(withSource, chars(t.dest.host))

(* C6: the colour table holds exactly the hosts seen, the host of 0-based  *)
(* rank k in first-seen order bound to slot k mod 6; every banner shows    *)
(* its hosts in their stored colours; no step removes or changes an entry. *)
C6_ColorSlots ==
    /\ [](LET seen == FirstSeen(TcpRecords)
          IN  /\ DOMAIN colors = Range(seen)
              /\ \A k \in 1..Len(seen) :
                     colors[seen[k]] =
                         ColoredString(seen[k], Palette[((k - 1) % 6) + 1])
              /\ \A n \in 1..Len(Banners) :
                     /\ Banners[n].source = colors[Banners[n].source.text]
                     /\ Banners[n].dest = colors[Banners[n].dest.text])
    /\ [][\A h \in DOMAIN colors :
              h \in DOMAIN colors' /\ colors'[h] = colors[h]]_vars

\* C6's case: seven hosts seen, the seventh (source and dest of one header)
\* in the first colour again, and the first host looked up a second time.
C6_Witness ==
    /\ Cardinality(DOMAIN colors) = 7
    /\ Len(Banners) = 5
    /\ Banners[4].source.text = Banners[4].dest.text
    /\ Banners[4].source.fgcolor = "Red"
    /\ Banners[5].source = Banners[1].source

\* The last line read is complete (it ends with a newline) and did not parse.
MalformedLineRead ==
    /\ stdin # <<>>
    /\ stdin[Len(stdin)][Len(stdin[Len(stdin)])] = "\n"
    /\ parseResult.tag \notin {"Ok", "None"}

IsSuffix(t, line) == Len(t) <= Len(line) /\ t = Drop(line, Len(line) - Len(t))

(* C7: a line that matches none of the grammars ends the run with a fatal  *)
(* error whose diagnostic holds the offending bytes; the line produces no  *)
(* output and no later line is handled.                                    *)
C7_MalformedRejected ==
    /\ [](MalformedLineRead =>
             /\ pc \in {"failed", "panicked"}
             /\ ~ENABLED Next
             /\ \E k \in 1..Len(stderr) :
                    /\ stderr[k].rest # <<>>
                    /\ IsSuffix(stderr[k].rest, stdin[Len(stdin)]))
    /\ [][MalformedLineRead' =>
             UNCHANGED <<stdout, hex, approximationBuf, colors>>]_vars

Recognised == {"approximation", "hex"}

(* C8: with an unrecognised mode nothing is fatal: every flush prints no   *)
(* packet line and writes one "Data ignored" diagnostic, it still clears   *)
(* the buffers, every TcpHeader still gets its banner, and the run stops   *)
(* early only on a line that does not parse.                               *)
C8_UnknownModeNotFatal ==
    /\ [](options.repr \notin Recognised =>
             /\ PacketLines = <<>>
             /\ Len(Ignored) = Cardinality(ClosedRunEnds)
             /\ Len(Banners) = Len(TcpRecords)
             /\ pc \in {"failed", "panicked"} => parseResult.tag # "Ok"
             /\ pc = "reading" => ENABLED EndOfInput)
    /\ [][(options.repr \notin Recognised /\ RecordStep({"Ip", "Tcp"})) =>
             /\ pc' = pc
             /\ hex' = <<>> /\ approximationBuf' = <<>>
             /\ Len(stderr') = Len(stderr) + (IF hex # <<>> THEN 1 ELSE 0)
             /\ Len(Banners') = Len(Banners) +
                    (IF parseResult'.out.type = "Tcp" THEN 1 ELSE 0)]_vars

\* C8's case: a whole stream handled in an unrecognised mode, two packets
\* dropped with a diagnostic each and a banner printed after the first.
C8_Witness ==
    /\ options.repr \notin Recognised
    /\ pc = "done"
    /\ Len(Ignored) = 2
    /\ Kinds = <<"Tcp", "Data", "Tcp", "Data">>
    /\ Len(Banners) = 2

HostA == <<"1", "9", "2", ".", "1", "6", "8", ".", "0", ".", "1", "0">>

HostB == <<"1", "9", "2", ".", "1", "6", "8", ".", "0", ".", "2", "0">>

\* The documented scenario has been read to its end in the default mode.
ScenarioDone ==
    /\ options.repr = "approximation"
    /\ stdin = <<IpLine, TcpLineAB, DataLine1>>
    /\ pc = "done"

ScenarioBanner ==
    BannerLine(ColoredString(HostA, "Red"), ColoredString(HostB, "Green"))

(* C9 as stated: the scenario prints a blank line, the banner with the     *)
(* source host in slot 0 and the dest host in slot 1, then the line        *)
(* " ......." (a space before the seven dots), and nothing else.           *)
C9_ScenarioLeadingSpace ==
    ScenarioDone =>
        /\ stdout = <<TextLine(<<>>), ScenarioBanner,
                      TextLine(<<" ", ".", ".", ".", ".", ".", ".", ".">>)>>
        /\ stderr = <<>>

(* C9, amended: the scenario prints a blank line, the banner with the      *)
(* source host in slot 0 and the dest host in slot 1, then the line        *)
(* "......." (the approximation column as it stands, no leading space),    *)
(* and nothing else.                                                       *)
C9_Scenario ==
    ScenarioDone =>
        /\ stdout = <<TextLine(<<>>), ScenarioBanner,
                      TextLine(<<".", ".", ".", ".", ".", ".", ".">>)>>
        /\ stderr = <<>>

\* C9's case: the scenario has run and printed its three lines.
C9_Witness == ScenarioDone /\ Len(stdout) = 3

\* The input ParseSpec parsed is ts + " IP " + rest + "\n" with ts the first
\* n bytes, ts free of whitespace and rest free of newlines, both non-empty.
IpForm(line, n) ==
    /\ n >= 1
    /\ Len(line) >= n + 6
    /\ \A k \in 1..n : line[k] \notin Whitespace
    /\ SubSeq(line, n + 1, n + 4) = <<" ", "I", "P", " ">>
    /\ line[Len(line)] = "\n"
    /\ \A k \in (n + 5)..(Len(line) - 1) : line[k] # "\n"

IpFormTs(line, n) == SubSeq(line, 1, n)

IpFormRest(line, n) == SubSeq(line, n + 5, Len(line) - 1)

(* C10 as stated: a line "<ts> IP <rest>\n" parses to IpHeader(ts, rest)   *)
(* and no input of the line is left unconsumed.                            *)
C10_IpLineNothingLeft ==
    parseResult # NoResult =>
        \A n \in 1..Len(stdin[1]) :
            IpForm(stdin[1], n) =>
                parseResult = Ok(<<>>, Ip(IpFormTs(stdin[1], n),
                                          IpFormRest(stdin[1], n)))

(* C10, amended: a line "<ts> IP <rest>\n" parses to IpHeader(ts, rest)    *)
(* with byte-exact spans, and the input left unconsumed is exactly the     *)
(* terminating newline.                                                    *)
C10_IpLine ==
    parseResult # NoResult =>
        \A n \in 1..Len(stdin[1]) :
            IpForm(stdin[1], n) =>
                parseResult = Ok(<<"\n">>, Ip(IpFormTs(stdin[1], n),
                                              IpFormRest(stdin[1], n)))

\* C10's case: an IP line whose rest holds a space has been parsed.
C10_Witness ==
    /\ stdin = << <<"I", "P", " ", "I", "P", " ", " ", "\n">> >>
    /\ parseResult.tag = "Ok"
    /\ parseResult.out.type = "Ip"

----------------------------------------------------------------------------
(* C11: every address token that holds a '.' is split at its last '.': the *)
(* host, a '.', and the port make up the token again, the port holds no    *)
(* '.', and the host may hold some; a header line one of whose tokens      *)
(* holds no '.' ends the run with a panic and yields no record and no      *)
(* banner.                                                                *)

HasDot(token) == \E i \in 1..Len(token) : token[i] = "."

SplitsAtLastDot(hp, token) ==
    /\ hp.host \o <<".">> \o hp.port = token
    /\ ~HasDot(hp.port)

C11_HostPortSplit ==
    \A n, m \in 1..MaxToken :
        (Len(stdin) = 1 /\ Len(stdin[1]) = n + m + 11) =>
            LET line == stdin[1]
                s == SubSeq(line, 5, n + 4)
                d == SubSeq(line, n + 8, n + m + 7)
            IN  line = TcpLineOf(s, d) =>
                    IF HasDot(s) /\ HasDot(d)
                    THEN /\ parseResult.tag = "Ok"
                         /\ parseResult.out.type = "Tcp"
                         /\ SplitsAtLastDot(parseResult.out.source, s)
                         /\ SplitsAtLastDot(parseResult.out.dest, d)
                         /\ records = <<parseResult.out>>
                    ELSE /\ parseResult = Panic
                         /\ pc = "panicked"
                         /\ records = <<>>
                         /\ stdout = <<>>

\* a header whose source host holds a '.' has been split
C11_Witness ==
    /\ Len(stdin) = 1
    /\ parseResult.tag = "Ok"
    /\ parseResult.out.type = "Tcp"
    /\ HasDot(parseResult.out.source.host)
    /\ parseResult.out.source.port # <<>>
    /\ Len(Banners) = 1

----------------------------------------------------------------------------
(* C12: an Incomplete result of the grammar is not shown to the user and   *)
(* does not fail the run: after a line the grammar found incomplete the    *)
(* run has not failed and no diagnostic of it is on standard error.        *)

C12_IncompleteNotAnError ==
    parseResult.tag = "Incomplete" =>
        /\ pc # "failed"
        /\ \A i \in 1..Len(stderr) :
               stderr[i].what \notin {"Incomplete", "Failed to parse"}

----------------------------------------------------------------------------
(* C13: a Data record that arrives when both buffers are empty begins a    *)
(* packet: hex becomes a space followed by the record's hex column and     *)
(* approximation becomes the record's approximation column, so neither     *)
(* stays empty; the colour table is unchanged, nothing is emitted and the  *)
(* run goes on.                                                            *)

DataOnEmptyBuffers ==
    /\ RecordStep({"Data"})
    /\ hex = <<>>
    /\ approximationBuf = <<>>

\* as first stated: the record is dropped and both buffers stay empty
C13_EmptyDataNoOp ==
    [][DataOnEmptyBuffers =>
           /\ hex' = <<>>
           /\ approximationBuf' = <<>>
           /\ UNCHANGED <<colors, stdout, stderr>>
           /\ pc' \notin {"failed", "panicked"}]_vars

C13_EmptyDataBeginsPacket ==
    [][DataOnEmptyBuffers =>
           /\ hex' = <<" ">> \o parseResult'.out.hex
           /\ approximationBuf' = parseResult'.out.approx
           /\ hex' # <<>>
           /\ approximationBuf' # <<>>
           /\ UNCHANGED <<colors, stdout, stderr>>
           /\ pc' \notin {"failed", "panicked"}]_vars

\* a Data record has arrived right after a header, on empty buffers
C13_Witness ==
    /\ Kinds = <<"Tcp", "Data">>
    /\ hex = <<" ">> \o records[2].hex
    /\ approximationBuf = records[2].approx
    /\ pc = "reading"

----------------------------------------------------------------------------
(* C14: between records, hex is non-empty exactly when a Data record has   *)
(* been appended since the last flush or since the start (the last record  *)
(* handled is a Data record), approximation is empty exactly when hex is,  *)
(* and a step that clears one buffer clears the other and is a flush.      *)

BetweenRecords == pc \in {"reading", "drained", "failed", "panicked"}

DataSinceLastFlush ==
    /\ Len(records) > 0
    /\ Kinds[Len(records)] = "Data"

C14_BuffersTogether ==
    /\ [](BetweenRecords =>
            /\ (hex # <<>>) <=> DataSinceLastFlush
            /\ (approximationBuf = <<>>) <=> (hex = <<>>))
    /\ [][((hex # <<>> /\ hex' = <<>>)
              \/ (approximationBuf # <<>> /\ approximationBuf' = <<>>)) =>
             /\ hex' = <<>>
             /\ approximationBuf' = <<>>
             /\ Flushes' = Flushes + 1
             /\ RecordStep({"Ip", "Tcp"})]_vars

\* data appended again after a flush, and a flush that cleared both buffers
C14_Witness ==
    /\ Kinds = <<"Data", "Tcp", "Data", "Ip">>
    /\ Flushes = 2
    /\ hex = <<>>
    /\ approximationBuf = <<>>

----------------------------------------------------------------------------
(* C15: every line of the data shape that has not the shape of a header    *)
(* line is classified as a Data record with its hex and approximation      *)
(* columns, whatever its indentation and its offset token: an alternative  *)
(* that does not match never keeps a later one from being tried.           *)

C15_DataShapeClassified ==
    \A indent \in Indents, off \in OffsetTokens, hx \in HexColumns,
       ap \in Approximations :
        stdin = <<DataLineOf(indent, off, hx, ap)>> =>
            /\ parseResult = Ok(<<"\n">>, Data(hx, ap))
            /\ records = <<Data(hx, ap)>>

----------------------------------------------------------------------------
(* C16: on every proper prefix of a line that one of the three grammars    *)
(* accepts, the grammar reports Incomplete: never an error, never a        *)
(* record.                                                                 *)

IsProperPrefix(p, line) == Len(p) < Len(line) /\ p = Take(line, Len(p))

C16_PrefixIncomplete ==
    (Len(stdin) = 1 /\ \E line \in ValidLines : IsProperPrefix(stdin[1], line)) =>
        parseResult.tag = "Incomplete"

----------------------------------------------------------------------------
(* C17: handling one record takes a bounded number of steps: write_out is  *)
(* entered once, and once more exactly when a header record finds the      *)
(* buffers non-empty and flushes them; a record triggers at most one flush *)
(* and after it both buffers are empty.                                    *)

C17_OneRedispatch ==
    /\ [](calls \in 0..2)
    /\ [][RecordStep({"Ip", "Tcp", "Data"}) =>
             /\ calls' \in {1, 2}
             /\ Flushes' = Flushes + (calls' - 1)
             /\ calls' = 2 <=> (hex # <<>> /\ parseResult'.out.type # "Data")
             /\ calls' = 2 => (hex' = <<>> /\ approximationBuf' = <<>>)]_vars

\* a header record has flushed the buffers and been dispatched a second time
C17_Witness ==
    /\ calls = 2
    /\ Kinds = <<"Tcp", "Data", "Data", "Tcp">>
    /\ hex = <<>>
    /\ Flushes = 1

----------------------------------------------------------------------------
(* C18: every TCP header record that is handled prints exactly one banner, *)
(* a blank line followed by "<source host> -> <dest host>", whether the    *)
(* buffers were empty or not; when they were not, the flush of the         *)
(* fragments read before the header comes first, so the packet line of     *)
(* the preceding fragments stands before the banner and the packet line    *)
(* of the following fragments after it.                                    *)

\* what the flush of the buffers adds to standard output
FlushedLines ==
    IF hex = <<>> THEN <<>>
    ELSE IF options.repr = "approximation" THEN <<TextLine(approximationBuf)>>
    ELSE IF options.repr = "hex" THEN <<TextLine(hex)>>
    ELSE <<>>

C18_BannerPerHeaderInOrder ==
    [][RecordStep({"Tcp"}) =>
           /\ Len(Banners') = Len(Banners) + 1
           /\ Len(stdout') = Len(stdout) + Len(FlushedLines) + 2
           /\ SubSeq(stdout', 1, Len(stdout) + Len(FlushedLines))
                  = stdout \o FlushedLines
           /\ stdout'[Len(stdout') - 1] = TextLine(<<>>)
           /\ LET banner == stdout'[Len(stdout')]
              IN  /\ banner.kind = "banner"
                  /\ banner.source.text = parseResult'.out.source.host
                  /\ banner.dest.text = parseResult'.out.dest.host]_vars

\* packet line of the fragments before the second header, then its banner,
\* then the packet line of the fragments after it
C18_Witness ==
    /\ Kinds = <<"Tcp", "Data", "Tcp", "Data">>
    /\ pc = "done"
    /\ Len(stdout) = 6
    /\ stdout[3] = TextLine(records[2].approx)
    /\ stdout[5].kind = "banner"
    /\ stdout[5].source.text = records[3].source.host
    /\ stdout[6] = TextLine(records[4].approx)

----------------------------------------------------------------------------
(* C19: an IP header record that arrives on empty buffers emits nothing    *)
(* and changes neither the buffers nor the colour table; a TCP header      *)
(* record that arrives on empty buffers leaves both buffers empty and, of  *)
(* the accumulator, changes only the colour table, keeping its entries and *)
(* adding at most two; IP header and Data records never add an entry.      *)

C19_EmptyBufferFrames ==
    /\ [][(RecordStep({"Ip"}) /\ hex = <<>>) =>
             UNCHANGED <<hex, approximationBuf, colors, stdout, stderr>>]_vars
    /\ [][(RecordStep({"Tcp"}) /\ hex = <<>>) =>
             /\ hex' = <<>>
             /\ approximationBuf' = <<>>
             /\ stderr' = stderr
             /\ DOMAIN colors \subseteq DOMAIN colors'
             /\ \A k \in DOMAIN colors : colors'[k] = colors[k]
             /\ Cardinality(DOMAIN colors' \ DOMAIN colors) <= 2]_vars
    /\ [][RecordStep({"Ip", "Data"}) => colors' = colors]_vars

\* a TCP header on empty buffers has added two entries, and an IP header on
\* empty buffers has left everything as it was
C19_Witness ==
    /\ Kinds = <<"Tcp", "Ip">>
    /\ Cardinality(DOMAIN colors) = 2
    /\ Len(stdout) = 2
    /\ hex = <<>>
    /\ approximationBuf = <<>>
    /\ stderr = <<>>

----------------------------------------------------------------------------
(* C20: a line that fails to parse stops the run without a flush: the step *)
(* prints nothing on standard output and leaves the pending buffers as     *)
(* they were, and no step follows it, so the closing flush never runs and  *)
(* standard output holds only what was printed before the failing line.    *)

Stopped == pc \in {"failed", "panicked"}

C20_NoFlushOnFailure ==
    /\ [][(stdin' # stdin /\ parseResult'.tag # "Ok") =>
             /\ Stopped'
             /\ UNCHANGED <<stdout, hex, approximationBuf, records>>
             /\ Flushes' = Flushes]_vars
    /\ [][~Stopped]_vars
    /\ [](Stopped => Flushes = Cardinality(ClosedRunEnds))

\* the run has stopped on a bad line with a fragment pending, and only the
\* banner printed before it is on standard output
C20_Witness ==
    /\ pc = "failed"
    /\ Kinds = <<"Tcp", "Data">>
    /\ hex # <<>>
    /\ approximationBuf # <<>>
    /\ Len(stdout) = 2
    /\ PacketLines = <<>>

====
